---- MODULE Spec2Model ----
(***************************************************************************)
(* Model of rocksdb's FileIndexer (db/file_indexer.cc): the per-level list *)
(* of IndexUnit hints (next_level_index_), the per-level right bound cache *)
(* (level_rb_), the builder UpdateIndex with its four merge passes         *)
(* (CalculateLB / CalculateRB), ClearIndex and the query                   *)
(* GetNextLevelIndex.                                                      *)
(*                                                                         *)
(* User keys are the integers 1..MaxKey under their natural order; a file  *)
(* is a record [smallest, largest].  C++ vectors are TLA+ sequences, so    *)
(* the 0-based position p of the code is element p + 1 of the sequence.    *)
(***************************************************************************)
EXTENDS Integers, Sequences, FiniteSets, TLC

\* Largest user key of the model; keys are 1..MaxKey.
MaxKey == 3

\* Largest level count a FileIndexer is constructed with.
MaxLevels == 3

Keys == 1..MaxKey

VARIABLES
  num_levels_,        \* FileIndexer::num_levels_
  next_level_index_,  \* FileIndexer::next_level_index_ : level -> sequence of IndexUnit
  level_rb_,          \* FileIndexer::level_rb_ : level -> index of the last file, or -1
  files,              \* the file lists passed to the last UpdateIndex (level -> sequence)
  last_op             \* the last mutating call: "construct", "build" or "clear"

vars == <<num_levels_, next_level_index_, level_rb_, files, last_op>>

----------------------------------------------------------------------------
(* Inputs *)

\* A file's metadata: smallest <= largest.
FileMetaData == {f \in [smallest : Keys, largest : Keys] : f.smallest <= f.largest}

\* 0-based element access of a vector.
At(vec, p) == vec[p + 1]

\* The sorted, strictly non-overlapping file lists a level >= 1 can hold:
\* every file's largest key is below the next file's smallest key.
RECURSIVE SortedListsFrom(_)
SortedListsFrom(lo) ==
  {<<>>} \cup
  UNION { { <<f>> \o rest : rest \in SortedListsFrom(f.largest + 1) } :
          f \in {g \in FileMetaData : g.smallest >= lo} }

SortedLists == SortedListsFrom(1)

\* Level 0 is not indexed and its files may overlap.
Level0Lists ==
  { <<>>,
    << [smallest |-> 1, largest |-> MaxKey], [smallest |-> 1, largest |-> 1] >> }

Levels(n) == 0..(n - 1)

\* The documented scenario: 3 levels, level 1 = [10,20], [30,40] and
\* level 2 = [5,15], [18,25], [35,45].
ScenarioFiles ==
  [v \in Levels(3) |->
     IF v = 1 THEN << [smallest |-> 10, largest |-> 20],
                      [smallest |-> 30, largest |-> 40] >>
     ELSE IF v = 2 THEN << [smallest |-> 5, largest |-> 15],
                           [smallest |-> 18, largest |-> 25],
                           [smallest |-> 35, largest |-> 45] >>
     ELSE <<>>]

\* The arguments UpdateIndex is called with for an indexer of n levels: per
\* level the files resident there, sorted and non-overlapping at levels >= 1.
FileListsFor(n) ==
  { [v \in Levels(n) |-> IF v = 0 THEN l0 ELSE rest[v]] :
      l0 \in Level0Lists, rest \in [1..(n - 1) -> SortedLists] }
  \cup (IF n = 3 THEN {ScenarioFiles} ELSE {})

AllFileLists == [n \in 1..MaxLevels |-> FileListsFor(n)]

FileLists(n) == AllFileLists[n]

----------------------------------------------------------------------------
(* Comparator and hint records *)

\* ucmp_->Compare on user keys: the sign of the three-way comparison.
Compare(a, b) == IF a < b THEN -1 ELSE IF a > b THEN 1 ELSE 0

\* A freshly constructed IndexUnit (the elements resize() appends).
IndexUnit0 ==
  [smallest_lb |-> 0, largest_lb |-> 0, smallest_rb |-> -1, largest_rb |-> -1]

\* std::vector::resize(n): keep the first n elements, append fresh ones.
Resize(vec, n) ==
  [p \in 1..n |-> IF p <= Len(vec) THEN vec[p] ELSE IndexUnit0]

\* Mutant of cmp_op: every pass compares against the lower file's smallest
\* key (the forward passes must compare against its largest key).
cmp_op_lower_smallest(ukey, lkey, a, b) == Compare(a[ukey], b["smallest"])

\* cmp_op of a pass: compare the upper file's key ukey with the lower file's
\* key lkey ("smallest" or "largest").
cmp_op(ukey, lkey, a, b) == Compare(a[ukey], b[lkey])

\* set_index of a pass: store f_idx in one field of the unit at upper_idx.
set_index(index, field, upper_idx, f_idx) ==
  [index EXCEPT ![upper_idx + 1][field] = f_idx]

----------------------------------------------------------------------------
(* The merge passes *)

\* Mutant of LBExhausted: one past the lower level's size.
LBExhaustedOffByOne(lower_size) == lower_size + 1

\* Mutant of LBExhausted: the last lower index instead of the size.
LBExhaustedLastIndex(lower_size) == lower_size - 1

\* Value a forward pass stores once the lower files are exhausted.
LBExhausted(lower_size) == lower_size

\* Mutant of RBExhausted: the forward passes' sentinel.
RBExhaustedAsSize(lower_size) == lower_size

\* Value a backward pass stores once the lower files are exhausted.
RBExhausted(lower_size) == -1

RECURSIVE CalculateLBFrom(_, _, _, _, _, _, _, _)
CalculateLBFrom(upper_files, lower_files, index, ukey, lkey, field, upper_idx, lower_idx) ==
  LET upper_size == Len(upper_files)
      lower_size == Len(lower_files)
  IN
  IF upper_idx < upper_size /\ lower_idx < lower_size THEN
    LET cmp == cmp_op(ukey, lkey, At(upper_files, upper_idx),
                      At(lower_files, lower_idx))
    IN
    IF cmp = 0 THEN
      CalculateLBFrom(upper_files, lower_files,
                      set_index(index, field, upper_idx, lower_idx),
                      ukey, lkey, field,
                      upper_idx + 1, lower_idx + 1)
    ELSE IF cmp > 0 THEN
      CalculateLBFrom(upper_files, lower_files, index, ukey, lkey, field,
                      upper_idx, lower_idx + 1)
    ELSE
      CalculateLBFrom(upper_files, lower_files,
                      set_index(index, field, upper_idx, lower_idx),
                      ukey, lkey, field, upper_idx + 1, lower_idx)
  ELSE IF upper_idx < upper_size THEN
    CalculateLBFrom(upper_files, lower_files,
                    set_index(index, field, upper_idx, LBExhausted(lower_size)),
                    ukey, lkey, field, upper_idx + 1, lower_idx)
  ELSE index

\* FileIndexer::CalculateLB: both cursors start at the first file.
CalculateLB(upper_files, lower_files, index, ukey, lkey, field) ==
  CalculateLBFrom(upper_files, lower_files, index, ukey, lkey, field, 0, 0)

RECURSIVE CalculateRBFrom(_, _, _, _, _, _, _, _)
CalculateRBFrom(upper_files, lower_files, index, ukey, lkey, field, upper_idx, lower_idx) ==
  LET lower_size == Len(lower_files)
  IN
  IF upper_idx >= 0 /\ lower_idx >= 0 THEN
    LET cmp == cmp_op(ukey, lkey, At(upper_files, upper_idx),
                      At(lower_files, lower_idx))
    IN
    IF cmp = 0 THEN
      CalculateRBFrom(upper_files, lower_files,
                      set_index(index, field, upper_idx, lower_idx),
                      ukey, lkey, field,
                      upper_idx - 1, lower_idx - 1)
    ELSE IF cmp < 0 THEN
      CalculateRBFrom(upper_files, lower_files, index, ukey, lkey, field,
                      upper_idx, lower_idx - 1)
    ELSE
      CalculateRBFrom(upper_files, lower_files,
                      set_index(index, field, upper_idx, lower_idx),
                      ukey, lkey, field, upper_idx - 1, lower_idx)
  ELSE IF upper_idx >= 0 THEN
    CalculateRBFrom(upper_files, lower_files,
                    set_index(index, field, upper_idx, RBExhausted(lower_size)),
                    ukey, lkey, field, upper_idx - 1, lower_idx)
  ELSE index

\* Mutant of CalculateRB: the lower cursor starts one file too early.
CalculateRBFromSecondLast(upper_files, lower_files, index, ukey, lkey, field) ==
  CalculateRBFrom(upper_files, lower_files, index, ukey, lkey, field,
                  Len(upper_files) - 1, Len(lower_files) - 2)

\* FileIndexer::CalculateRB: both cursors start at the last file.
CalculateRB(upper_files, lower_files, index, ukey, lkey, field) ==
  CalculateRBFrom(upper_files, lower_files, index, ukey, lkey, field,
                  Len(upper_files) - 1, Len(lower_files) - 1)

\* The body of UpdateIndex's loop for a level with upper_size > 0: resize
\* the level's hint vector and run the four passes over it.
BuildLevelIndex(old_index, upper_files, lower_files) ==
  LET i0 == Resize(old_index, Len(upper_files))
      i1 == CalculateLB(upper_files, lower_files, i0,
                        "smallest", "largest", "smallest_lb")
      i2 == CalculateLB(upper_files, lower_files, i1,
                        "largest", "largest", "largest_lb")
      i3 == CalculateRB(upper_files, lower_files, i2,
                        "smallest", "smallest", "smallest_rb")
      i4 == CalculateRB(upper_files, lower_files, i3,
                        "largest", "smallest", "largest_rb")
  IN i4

----------------------------------------------------------------------------
(* The query *)

Signs == {-1, 0, 1}

\* The values an out-of-range vector read may leave in a bound.
AnyBound == -1..MaxKey

\* An outcome of GetNextLevelIndex.  left_bound and right_bound are the
\* out-parameters; they are only written when status is "returned" (or by
\* an undefined read).
Outcome(status, left_bound, right_bound) ==
  [status |-> status, left_bound |-> left_bound, right_bound |-> right_bound]

\* The closing assertions on the bounds written by a branch.
CheckedReturn(level, left_bound, right_bound) ==
  IF /\ left_bound >= 0
     /\ left_bound <= right_bound + 1
     /\ right_bound <= level_rb_[level + 1]
  THEN Outcome("returned", left_bound, right_bound)
  ELSE Outcome("assert_bounds", left_bound, right_bound)

\* The branch taken for a pair of signs: 1..5 in the order of the code,
\* 6 for the final else.
Branch(cmp_smallest, cmp_largest) ==
  IF cmp_smallest < 0 THEN 1
  ELSE IF cmp_smallest = 0 THEN 2
  ELSE IF cmp_smallest > 0 /\ cmp_largest < 0 THEN 3
  ELSE IF cmp_largest = 0 THEN 4
  ELSE IF cmp_largest > 0 THEN 5
  ELSE 6

\* FileIndexer::GetNextLevelIndex in a build with assertions enabled: the
\* set of outcomes of the call.  Reading next_level_index_[level] past its
\* end is undefined behaviour: any bounds may come back.
GetNextLevelIndex(level, file_index, cmp_smallest, cmp_largest) ==
  IF ~(level > 0) THEN {Outcome("assert_level", 0, 0)}
  ELSE IF level = num_levels_ - 1 THEN {Outcome("returned", 0, -1)}
  ELSE IF ~(level < num_levels_ - 1) THEN {Outcome("assert_level", 0, 0)}
  ELSE IF ~(file_index <= level_rb_[level])
       THEN {Outcome("assert_file_index", 0, 0)}
  ELSE IF ~(file_index < Len(next_level_index_[level]))
       THEN {Outcome("undefined", l, r) : l \in AnyBound, r \in AnyBound}
  ELSE
    LET index == At(next_level_index_[level], file_index)
        b == Branch(cmp_smallest, cmp_largest)
    IN
    IF b = 1 THEN
      {CheckedReturn(level,
         IF level > 0 /\ file_index > 0
           THEN At(next_level_index_[level], file_index - 1).largest_lb
           ELSE 0,
         index.smallest_rb)}
    ELSE IF b = 2 THEN
      {CheckedReturn(level, index.smallest_lb, index.smallest_rb)}
    ELSE IF b = 3 THEN
      {CheckedReturn(level, index.smallest_lb, index.largest_rb)}
    ELSE IF b = 4 THEN
      {CheckedReturn(level, index.largest_lb, index.largest_rb)}
    ELSE IF b = 5 THEN
      {CheckedReturn(level, index.largest_lb, level_rb_[level + 1])}
    ELSE {Outcome("assert_false", 0, 0)}

----------------------------------------------------------------------------
(* State machine *)

\* FileIndexer::FileIndexer(num_levels, ucmp)
Init ==
  /\ num_levels_ \in 1..MaxLevels
  /\ next_level_index_ = [v \in Levels(num_levels_) |-> <<>>]
  /\ level_rb_ = [v \in Levels(num_levels_) |-> -1]
  /\ files = [v \in Levels(num_levels_) |-> <<>>]
  /\ last_op = "construct"

\* Mutant of NewLevelRb: the assignment to the last level is missing.
NewLevelRbLoopOnly(new_files) ==
  [v \in Levels(num_levels_) |->
     IF 1 <= v /\ v < num_levels_ - 1
       THEN Len(new_files[v]) - 1
       ELSE level_rb_[v]]

\* The assignments UpdateIndex makes to level_rb_: levels 1..L-2 in the
\* loop, level L-1 after it; no other entry is written.
NewLevelRb(new_files) ==
  [v \in Levels(num_levels_) |->
     IF (1 <= v /\ v < num_levels_ - 1) \/ v = num_levels_ - 1
       THEN Len(new_files[v]) - 1
       ELSE level_rb_[v]]

\* The hint vectors after UpdateIndex: a level of the loop with no file is
\* skipped by "continue" before its vector is resized.
NewLevelIndex(new_files) ==
  [v \in Levels(num_levels_) |->
     IF 1 <= v /\ v < num_levels_ - 1 /\ Len(new_files[v]) # 0
       THEN BuildLevelIndex(next_level_index_[v], new_files[v],
                            new_files[v + 1])
       ELSE next_level_index_[v]]

\* FileIndexer::UpdateIndex(files) with files != nullptr
UpdateIndex(new_files) ==
  /\ level_rb_' = NewLevelRb(new_files)
  /\ next_level_index_' = NewLevelIndex(new_files)
  /\ files' = new_files
  /\ last_op' = "build"
  /\ UNCHANGED num_levels_

Build == \E new_files \in FileLists(num_levels_) : UpdateIndex(new_files)

\* FileIndexer::UpdateIndex(nullptr): returns at once.
UpdateIndexNull == UNCHANGED vars

\* FileIndexer::ClearIndex
ClearIndex ==
  /\ next_level_index_' =
       [v \in Levels(num_levels_) |->
          IF 1 <= v THEN <<>> ELSE next_level_index_[v]]
  /\ last_op' = "clear"
  /\ UNCHANGED <<num_levels_, level_rb_, files>>

\* A call of GetNextLevelIndex.  The method is read-only: it writes nothing
\* but its two out-parameters, which are the outcome computed above.
Resolve ==
  \E level \in Levels(num_levels_), file_index \in 0..(MaxKey - 1),
     cmp_smallest \in Signs, cmp_largest \in Signs :
    /\ GetNextLevelIndex(level, file_index, cmp_smallest, cmp_largest) # {}
    /\ UNCHANGED vars

Next == Build \/ UpdateIndexNull \/ ClearIndex \/ Resolve

Spec == Init /\ [][Next]_vars

----------------------------------------------------------------------------
(* Vocabulary of the properties *)

\* The state right after an UpdateIndex call that was given file lists.
Built == last_op = "build"

\* The levels UpdateIndex builds hints for: 1..L-2.
IndexedLevels == {u \in Levels(num_levels_) : 1 <= u /\ u <= num_levels_ - 2}

\* The 0-based positions of the files of level u.
FileIndexes(u) == 0..(Len(files[u]) - 1)

\* The hint record of file i of level u.
Hint(u, i) == At(next_level_index_[u], i)

\* LevelIndexSize(u)
hint_count(u) == Len(next_level_index_[u])

Min(S) == CHOOSE x \in S : \A y \in S : x <= y
Max(S) == CHOOSE x \in S : \A y \in S : x >= y

\* Reference hints by linear scan of the lower level.
FirstLargestAtLeast(lower, key) ==
  LET S == {j \in 0..(Len(lower) - 1) : At(lower, j).largest >= key}
  IN IF S = {} THEN Len(lower) ELSE Min(S)

LastSmallestAtMost(lower, key) ==
  LET S == {j \in 0..(Len(lower) - 1) : At(lower, j).smallest <= key}
  IN IF S = {} THEN -1 ELSE Max(S)

\* The keys a lookup may search for: every key of the model and of the
\* files of the last build, and the keys next to them.
QueryKeys ==
  LET used == Keys \cup UNION { UNION { {files[v][p].smallest, files[v][p].largest} :
                                        p \in 1..Len(files[v]) } :
                                v \in Levels(num_levels_) }
  IN UNION { {k - 1, k, k + 1} : k \in used }

\* File i of level u is the file a search for k is positioned at.
PositionedAt(u, i, k) ==
  i = 0 \/ k > At(files[u], i - 1).largest

\* The outcomes of the lookup of key k at file i of level u.
Lookup(u, i, k) ==
  GetNextLevelIndex(u, i, Compare(k, At(files[u], i).smallest),
                    Compare(k, At(files[u], i).largest))

\* The files of level u + 1 whose range contains k.
Candidates(u, k) ==
  {j \in FileIndexes(u + 1) :
     At(files[u + 1], j).smallest <= k /\ k <= At(files[u + 1], j).largest}

\* Sign pairs no file with smallest <= largest produces.
Malformed(cmp_smallest, cmp_largest) ==
  \/ cmp_smallest < 0 /\ cmp_largest >= 0
  \/ cmp_smallest = 0 /\ cmp_largest > 0

----------------------------------------------------------------------------
(* Properties *)

\* C1 (soundness): after a build, for every indexed level u, every key k and
\* every file i of level u that a search for k is positioned at, the call
\* with the signs of k against file i returns a range that contains every
\* file of level u + 1 whose [smallest, largest] contains k.
C1_Soundness ==
  Built =>
    \A u \in IndexedLevels : \A i \in FileIndexes(u) : \A k \in QueryKeys :
      PositionedAt(u, i, k) =>
        \A o \in Lookup(u, i, k) :
          /\ o.status = "returned"
          /\ \A j \in Candidates(u, k) :
               o.left_bound <= j /\ j <= o.right_bound

\* C1 witness: a built state where a lookup positioned at a file that is
\* not the first of its level returns a range holding a candidate file.
C1_Witness ==
  /\ Built
  /\ \E u \in IndexedLevels : \E i \in FileIndexes(u) : \E k \in QueryKeys :
       /\ i > 0
       /\ PositionedAt(u, i, k)
       /\ Candidates(u, k) # {}
       /\ \E o \in Lookup(u, i, k) :
            /\ o.status = "returned"
            /\ o.left_bound > 0
            /\ \A j \in Candidates(u, k) :
                 o.left_bound <= j /\ j <= o.right_bound

\* C2 (postconditions): after a build, every call at an indexed level with
\* file_index <= level_rb_[level] and any of the nine sign pairs returns,
\* with 0 <= left_bound, left_bound <= right_bound + 1 and
\* right_bound <= level_rb_[level + 1]: no closing assertion fails.
C2_Postconditions ==
  Built =>
    \A level \in IndexedLevels : \A file_index \in 0..level_rb_[level] :
      \A cmp_smallest \in Signs : \A cmp_largest \in Signs :
        \A o \in GetNextLevelIndex(level, file_index, cmp_smallest, cmp_largest) :
          /\ o.status = "returned"
          /\ 0 <= o.left_bound
          /\ o.left_bound <= o.right_bound + 1
          /\ o.right_bound <= level_rb_[level + 1]

\* C2 witness: a built state where the branch cmp_smallest < 0 at a file
\* with a predecessor returns the predecessor's largest_lb as a left bound
\* above 0 with an empty range, and the branch cmp_largest > 0 returns
\* level_rb_[level + 1] as right bound.
C2_Witness ==
  /\ Built
  /\ \E level \in IndexedLevels : \E file_index \in 1..level_rb_[level] :
       /\ \E o \in GetNextLevelIndex(level, file_index, -1, -1) :
            /\ o.status = "returned"
            /\ o.left_bound = Hint(level, file_index - 1).largest_lb
            /\ o.left_bound > 0
            /\ o.left_bound = o.right_bound + 1
       /\ \E o \in GetNextLevelIndex(level, file_index, 1, 1) :
            /\ o.status = "returned"
            /\ o.right_bound = level_rb_[level + 1]
            /\ o.right_bound >= 0

\* C3 (the four passes compute the reference hints): after a build, for
\* every indexed level u and every file i of it, smallest_lb / largest_lb
\* are the least lower index whose largest key is >= the file's smallest /
\* largest key (the lower size when there is none), and smallest_rb /
\* largest_rb the greatest lower index whose smallest key is <= the file's
\* smallest / largest key (-1 when there is none).
C3_PassesMatchReference ==
  Built =>
    \A u \in IndexedLevels : \A i \in FileIndexes(u) :
      LET f == At(files[u], i)
          lower == files[u + 1]
      IN /\ Hint(u, i).smallest_lb = FirstLargestAtLeast(lower, f.smallest)
         /\ Hint(u, i).largest_lb = FirstLargestAtLeast(lower, f.largest)
         /\ Hint(u, i).smallest_rb = LastSmallestAtMost(lower, f.smallest)
         /\ Hint(u, i).largest_rb = LastSmallestAtMost(lower, f.largest)

\* C3 witness: a built state where a forward pass met cmp == 0 (an upper
\* file's smallest key equals a lower file's largest key), advanced both
\* cursors, and the next upper file was assigned the next lower file.
C3_Witness ==
  /\ Built
  /\ \E u \in IndexedLevels : \E i \in FileIndexes(u) :
       /\ i + 1 \in FileIndexes(u)
       /\ LET j == Hint(u, i).smallest_lb
          IN /\ j \in FileIndexes(u + 1)
             /\ At(files[u + 1], j).largest = At(files[u], i).smallest
             /\ j + 1 \in FileIndexes(u + 1)
             /\ Hint(u, i + 1).smallest_lb = j + 1
             /\ Hint(u, i + 1).smallest_rb = j + 1

\* C4 as stated: after a build, level_rb_[v] = |files(v)| - 1 for every
\* level v in 0..L-1, level 0 included.
C4_AllLevelsBound ==
  Built => \A v \in Levels(num_levels_) : level_rb_[v] = Len(files[v]) - 1

\* C4 amended: after a build, level_rb_[v] = |files(v)| - 1 for every level
\* v in 1..L-1 (and for level 0 when it is the only level); with two or
\* more levels level_rb_[0] keeps its constructed value -1.
C4_BoundCache ==
  Built =>
    /\ \A v \in Levels(num_levels_) :
         (v >= 1 \/ num_levels_ = 1) => level_rb_[v] = Len(files[v]) - 1
    /\ num_levels_ >= 2 => level_rb_[0] = -1

\* C4 witness: a built state of three levels with files at levels 0 and 1
\* and none at the last level.
C4_Witness ==
  /\ Built
  /\ num_levels_ = 3
  /\ Len(files[0]) > 0
  /\ level_rb_[1] = Len(files[1]) - 1
  /\ level_rb_[1] >= 1
  /\ Len(files[2]) = 0
  /\ level_rb_[2] = -1

\* C5 as stated: after every build, also on a structure earlier builds
\* populated, hint_count(u) = |files(u)| for every indexed level u: an
\* empty level holds no hint record.
C5_EmptyLevelHasNoHints ==
  Built => \A u \in IndexedLevels : hint_count(u) = Len(files[u])

\* C6 as stated: after a build, largest_lb[i] <= level_rb_[u + 1] for every
\* file i of every indexed level u.
C6_LargestLbWithinLevel ==
  Built =>
    \A u \in IndexedLevels : \A i \in FileIndexes(u) :
      Hint(u, i).largest_lb <= level_rb_[u + 1]

\* C6 amended: after a build, largest_lb[i] <= level_rb_[u + 1] + 1, the
\* file count of level u + 1, for every file i of every indexed level u.
C6_LargestLbAtMostSize ==
  Built =>
    \A u \in IndexedLevels : \A i \in FileIndexes(u) :
      Hint(u, i).largest_lb <= level_rb_[u + 1] + 1

\* C6 witness: a built state where a file's largest_lb is the sentinel, the
\* file count of a non-empty next level.
C6_Witness ==
  /\ Built
  /\ \E u \in IndexedLevels : \E i \in FileIndexes(u) :
       /\ Len(files[u + 1]) > 0
       /\ Hint(u, i).largest_lb = level_rb_[u + 1] + 1
       /\ Hint(u, i).largest_lb = Len(files[u + 1])

\* C7 as stated: after a build, a call at an indexed level with a valid
\* file index and a malformed sign pair ends in the final else branch
\* (assert(false)) and returns no range.
C7_MalformedSignsFatal ==
  Built =>
    \A level \in IndexedLevels : \A file_index \in 0..level_rb_[level] :
      \A cmp_smallest \in Signs : \A cmp_largest \in Signs :
        Malformed(cmp_smallest, cmp_largest) =>
          \A o \in GetNextLevelIndex(level, file_index, cmp_smallest, cmp_largest) :
            o.status = "assert_false"

\* C8 as stated: in the scenario, the call at level 1, file 0 with
\* cmp_smallest = 0 returns (0, 1) and the call at level 1, file 1 with
\* cmp_smallest > 0, cmp_largest = 0 returns (2, 2).
C8_ScenarioAsStated ==
  (Built /\ files = ScenarioFiles) =>
    /\ GetNextLevelIndex(1, 0, 0, -1) = {Outcome("returned", 0, 1)}
    /\ GetNextLevelIndex(1, 1, 1, 0) = {Outcome("returned", 2, 2)}

\* C8 amended: in the scenario, the call at level 1, file 0 with
\* cmp_smallest = 0 (key 10) returns (0, 0), index 0 only, and the call at
\* level 1, file 1 with cmp_smallest > 0, cmp_largest = 0 (key 40) returns
\* (2, 2), index 2 only.
C8_Scenario ==
  (Built /\ files = ScenarioFiles) =>
    /\ GetNextLevelIndex(1, 0, 0, -1) = {Outcome("returned", 0, 0)}
    /\ GetNextLevelIndex(1, 1, 1, 0) = {Outcome("returned", 2, 2)}

\* C8 witness: the scenario has been built and both calls return.
C8_Witness ==
  /\ Built
  /\ files = ScenarioFiles
  /\ num_levels_ = 3
  /\ hint_count(1) = 2
  /\ \E o \in GetNextLevelIndex(1, 0, 0, -1) : o.status = "returned"
  /\ \E o \in GetNextLevelIndex(1, 1, 1, 0) : o.status = "returned"

\* C9 (monotonicity): after a build, for every indexed level u and every
\* two consecutive files i, i + 1 of it, each of the four hint fields of
\* file i is <= that of file i + 1.
C9_Monotonic ==
  Built =>
    \A u \in IndexedLevels : \A i \in FileIndexes(u) :
      (i + 1) \in FileIndexes(u) =>
        /\ Hint(u, i).smallest_lb <= Hint(u, i + 1).smallest_lb
        /\ Hint(u, i).largest_lb <= Hint(u, i + 1).largest_lb
        /\ Hint(u, i).smallest_rb <= Hint(u, i + 1).smallest_rb
        /\ Hint(u, i).largest_rb <= Hint(u, i + 1).largest_rb

\* C9 witness: a built state with two consecutive files where the fields
\* run from the sentinel -1 to the sentinel |files(u + 1)|.
C9_Witness ==
  /\ Built
  /\ \E u \in IndexedLevels : \E i \in FileIndexes(u) :
       /\ (i + 1) \in FileIndexes(u)
       /\ Len(files[u + 1]) > 0
       /\ Hint(u, i).smallest_rb = -1
       /\ Hint(u, i + 1).largest_lb = Len(files[u + 1])
       /\ Hint(u, i).smallest_lb < Hint(u, i + 1).smallest_lb

\* C10 as stated: in every reachable state, the state right after
\* ClearIndex included, hint_count(u) = level_rb_[u] + 1 for every indexed
\* level u, so a call that passes file_index <= level_rb_[level] reads a
\* hint record that exists.
C10_CacheMatchesHints ==
  \A u \in IndexedLevels :
    /\ hint_count(u) = level_rb_[u] + 1
    /\ \A file_index \in 0..level_rb_[u] :
         \A cmp_smallest \in Signs : \A cmp_largest \in Signs :
           \A o \in GetNextLevelIndex(u, file_index, cmp_smallest, cmp_largest) :
             o.status # "undefined"

====
